---- MODULE Spec2Model ----
(***************************************************************************)
(* Model of the voice session component App (src/App.tsx; the variant in   *)
(* src/unnamed/part_000 has the same handlers): the session lifecycle, the *)
(* inbound message handler with its playback scheduling and transcript     *)
(* aggregation, and stopAllAudio.                                          *)
(*                                                                         *)
(* Every callback of the component runs on one event loop; an action of    *)
(* this module is one uninterrupted run of a callback, from its start or   *)
(* from the resumption of an await to its end or to the next await.        *)
(***************************************************************************)
EXTENDS Integers, Sequences, FiniteSets, TLC

(* ------------------------------ bounds --------------------------------- *)
\* inbound messages delivered over the whole run
MaxMsgs == 2
\* of these, messages of the audio stream (Spec)
MaxAudioMsgs == 2
\* device-clock ticks of the oldest output context
MaxTime == 3
\* start requests over the whole run
MaxSessions == 2
\* longest decoded buffer, in clock ticks
MaxDur == 2
\* microphone frames captured over the whole run
MaxFrames == 2
\* sample values tried per step of the 16-bit scale
SampleSteps == 3

MsgIds == 1..MaxMsgs
SessIds == 1..MaxSessions
Chars == {"a", "b"}

VARIABLES
  sessionState,         \* useState<SessionState>
  errorMessage,         \* useState<string | null>: "null", "setup", "transport"
  isProfessorSpeaking,  \* useState(false)
  messages,             \* useState<TranscriptionMessage[]>: the rendered log
  updateQueue,          \* setMessages updater closures not yet run by React
  sessionRef,           \* 0 = null, else the session whose connect() resolved
  outputAudioCtxRef,    \* 0 = null, else the session that created the context
  micStreamRef,         \* 0 = null, else the session that acquired the stream
  nextStartTimeRef,     \* the timeline cursor
  audioSourcesRef,      \* the in-flight set: ids of source nodes
  currentInputTransRef, \* accumulator, role user
  currentOutputTransRef,\* accumulator, role professor
  startPc,              \* per session: where handleStartSession is suspended
  conn,                 \* per session: the live connection
  micActive,            \* per session: the stream's track is live
  ctxTime,              \* per session: currentTime of its output AudioContext
  node,                 \* per message: its AudioBufferSourceNode
  decoding,             \* per message: the handler is suspended in the await
  msgCount,             \* inbound messages delivered so far
  sessCount,            \* start requests so far
  capture,              \* the capture pipelines and the outbound channel
  pcm,                  \* one sample on its way through the PCM codec
  hist                  \* history of what the handlers did (for the properties)

vars == <<sessionState, errorMessage, isProfessorSpeaking, messages, updateQueue,
          sessionRef, outputAudioCtxRef, micStreamRef, nextStartTimeRef,
          audioSourcesRef, currentInputTransRef, currentOutputTransRef,
          startPc, conn, micActive, ctxTime, node, decoding, msgCount,
          sessCount, capture, pcm, hist>>

lifeVars == <<sessionState, errorMessage, sessionRef, outputAudioCtxRef,
              micStreamRef, startPc, conn, micActive, sessCount, capture, pcm>>
transVars == <<messages, updateQueue, currentInputTransRef, currentOutputTransRef>>
playVars == <<isProfessorSpeaking, nextStartTimeRef, audioSourcesRef, node, decoding>>

Max(a, b) == IF a >= b THEN a ELSE b

\* A source node.  st: "none" (not created), "playing" (start() was called: it
\* is scheduled, sounding, or finished with its ended event still to come),
\* "stopped" (stop() was called, ended event still to come), "ended" (onended
\* has run).  start, dur, ctx, endAt: the argument of start(), the buffer's
\* duration, the context, and the device time at which the buffer runs out.
\* Two fields record history: the number of resets before start() (epoch) and
\* who cancelled the node (cancelledBy: a message id, 0 = stop session,
\* -1 = nobody).
NoNode == [st |-> "none", start |-> 0, dur |-> 0, ctx |-> 0, endAt |-> 0,
           epoch |-> 0, cancelledBy |-> -1]
\* A handler suspended in `await decodeAudioData(...)`: what its continuation
\* still holds (ctx, the buffer's duration, the message's interrupted flag),
\* and for the history the number of resets before the message arrived, the
\* device time then, and whether the cursor was behind it.
NoDecode == [on |-> FALSE, dur |-> 0, ctx |-> 0, interrupted |-> FALSE,
             arrEpoch |-> 0, arrNow |-> 0, behind |-> FALSE]
\* resets: calls of stopAllAudio so far; raised: the clamp raised the cursor
\* since the last start(); last: the node started last since the last reset;
\* stopped: stop session ran while CONNECTED, closed the session's connection,
\* and no start request came since; halted: stop session ran, in whatever
\* state, and no start request came since;
\* expect: for every turn so far, in order, one entry per role that had text
\* when the turn completed: the role, the text it had accumulated, and whether
\* both roles had text (pair).
\* The capture side.  on: per session, onopen wired its ScriptProcessor
\* (source -> processor -> destination) and set onaudioprocess; pending: per
\* session, the frames whose `sessionPromise.then` callback has not run yet;
\* sent: the chunks handed to session.sendRealtimeInput, in call order, each
\* with its frame number, its session and, for the history, the SessionState
\* at the call and whether the frame had waited for the promise (queued);
\* count: frames captured so far.
NoCapture == [on |-> [s \in SessIds |-> FALSE],
              pending |-> [s \in SessIds |-> <<>>],
              sent |-> <<>>, count |-> 0]
\* The codec at rest.  pc: "idle", "sampled", "encoded", "decoded"; n: the
\* sample; bytes: the encoded chunk; out: the decoded integer.
NoPcm == [pc |-> "idle", n |-> 0, bytes |-> <<>>, out |-> 0]
NoHist == [resets |-> 0, raised |-> FALSE, last |-> 0, stopped |-> FALSE,
           halted |-> FALSE, expect |-> <<>>]

\* The component after construction.
InitApp ==
  /\ sessionState = "DISCONNECTED"
  /\ errorMessage = "null"
  /\ isProfessorSpeaking = FALSE
  /\ messages = <<>>
  /\ updateQueue = <<>>
  /\ sessionRef = 0
  /\ outputAudioCtxRef = 0
  /\ micStreamRef = 0
  /\ nextStartTimeRef = 0
  /\ audioSourcesRef = {}
  /\ currentInputTransRef = <<>>
  /\ currentOutputTransRef = <<>>
  /\ startPc = [s \in SessIds |-> "unused"]
  /\ conn = [s \in SessIds |-> "none"]
  /\ micActive = [s \in SessIds |-> FALSE]
  /\ ctxTime = [s \in SessIds |-> 0]
  /\ node = [i \in MsgIds |-> NoNode]
  /\ decoding = [i \in MsgIds |-> NoDecode]
  /\ msgCount = 0
  /\ sessCount = 0
  /\ capture = NoCapture
  /\ hist = NoHist

Init ==
  /\ InitApp
  /\ pcm = NoPcm

(* ---------------------------- stopAllAudio ----------------------------- *)
\* The nodes of srcs whose buffer has run out and whose ended event is still
\* to come.  stop() on such a node is the call that may throw (the platform
\* decides); on a node still scheduled or sounding it does not.
Finished(nd, srcs) ==
  {i \in srcs : nd[i].st = "playing" /\ ctxTime[nd[i].ctx] >= nd[i].endAt}

\* A loop without the try/catch: the first throw ends it, and no node is
\* stopped.
StoppedUntilThrow(nd, srcs, threw, by) ==
  [i \in MsgIds |->
     IF i \in srcs
       THEN [nd[i] EXCEPT !.st = IF @ = "playing" /\ threw = {}
                                  THEN "stopped" ELSE @,
                          !.cancelledBy = by]
       ELSE nd[i]]

\* `forEach(source => { try { source.stop(); } catch (e) {} })` on the nodes
\* srcs, where stop() throws on the nodes threw: a throw is swallowed and the
\* loop goes on.  `by` names the caller for the history (a message id,
\* 0 = stop session).
StoppedNodes(nd, srcs, threw, by) ==
  [i \in MsgIds |->
     IF i \in srcs
       THEN [nd[i] EXCEPT !.st = IF @ = "playing" /\ i \notin threw
                                  THEN "stopped" ELSE @,
                          !.cancelledBy = by]
       ELSE nd[i]]

\* The history after a reset.
ResetHist(h) ==
  [h EXCEPT !.resets = @ + 1, !.raised = FALSE, !.last = 0]

\* stopAllAudio() run on the node table nd and the in-flight set srcs.
stopAllAudio(nd, srcs, by) ==
  /\ \E threw \in SUBSET Finished(nd, srcs) :
       node' = StoppedNodes(nd, srcs, threw, by)
  /\ audioSourcesRef' = {}
  /\ nextStartTimeRef' = 0
  /\ isProfessorSpeaking' = FALSE

(* ------------------------- session lifecycle --------------------------- *)
\* The start button is rendered in DISCONNECTED and ERROR, the stop button in
\* CONNECTING and CONNECTED.
CanStart == sessionState \in {"DISCONNECTED", "ERROR"}
CanStop == sessionState \in {"CONNECTING", "CONNECTED"}

\* handleStartSession up to `await getUserMedia`.
HandleStartSession ==
  /\ CanStart
  /\ sessCount < MaxSessions
  /\ LET s == sessCount + 1 IN
       /\ sessCount' = s
       /\ sessionState' = "CONNECTING"
       /\ errorMessage' = "null"
       /\ outputAudioCtxRef' = s
       /\ ctxTime' = [ctxTime EXCEPT ![s] = 0]
       /\ startPc' = [startPc EXCEPT ![s] = "awaitMic"]
  /\ hist' = [hist EXCEPT !.stopped = FALSE, !.halted = FALSE]
  /\ UNCHANGED <<sessionRef, micStreamRef, conn, micActive, msgCount>>
  /\ UNCHANGED transVars
  /\ UNCHANGED <<capture, pcm>>
  /\ UNCHANGED playVars

\* getUserMedia resolves: the stream is kept and ai.live.connect is called.
MicGranted(s) ==
  /\ startPc[s] = "awaitMic"
  /\ micStreamRef' = s
  /\ micActive' = [micActive EXCEPT ![s] = TRUE]
  /\ conn' = [conn EXCEPT ![s] = "connecting"]
  /\ startPc' = [startPc EXCEPT ![s] = "awaitSession"]
  /\ UNCHANGED hist
  /\ UNCHANGED <<sessionState, errorMessage, sessionRef, outputAudioCtxRef,
                 ctxTime, msgCount, sessCount>>
  /\ UNCHANGED transVars
  /\ UNCHANGED <<capture, pcm>>
  /\ UNCHANGED playVars

\* getUserMedia rejects: the catch block.
MicDenied(s) ==
  /\ startPc[s] = "awaitMic"
  /\ startPc' = [startPc EXCEPT ![s] = "failed"]
  /\ errorMessage' = "setup"
  /\ sessionState' = "ERROR"
  /\ UNCHANGED hist
  /\ UNCHANGED <<sessionRef, outputAudioCtxRef, micStreamRef, conn, micActive,
                 ctxTime, msgCount, sessCount>>
  /\ UNCHANGED transVars
  /\ UNCHANGED <<capture, pcm>>
  /\ UNCHANGED playVars

\* callbacks.onopen: the state is set and the capture pipeline is wired to
\* the stream of this start request.
OnOpen(s) ==
  /\ conn[s] = "connecting"
  /\ conn' = [conn EXCEPT ![s] = "open"]
  /\ sessionState' = "CONNECTED"
  /\ capture' = [capture EXCEPT !.on[s] = TRUE]
  /\ UNCHANGED hist
  /\ UNCHANGED <<errorMessage, sessionRef, outputAudioCtxRef, micStreamRef,
                 startPc, micActive, ctxTime, msgCount, sessCount, pcm>>
  /\ UNCHANGED transVars
  /\ UNCHANGED playVars

\* The callbacks registered on the promise run last in, first out.
ChunksLifo(q, s, state) ==
  [i \in 1..Len(q) |-> [frame |-> q[Len(q) + 1 - i], sess |-> s,
                        state |-> state, queued |-> TRUE]]

\* The `then` callbacks registered on sessionPromise while it was pending run
\* in the order they were registered, each calling sendRealtimeInput with the
\* chunk of its frame.
Chunks(q, s, state) ==
  [i \in 1..Len(q) |-> [frame |-> q[i], sess |-> s,
                        state |-> state, queued |-> TRUE]]

\* sessionPromise resolves: `sessionRef.current = await sessionPromise`
\* resumes with the session (it subscribed first), then the `then` callbacks
\* of the frames captured so far run.
ConnectResolved(s) ==
  /\ startPc[s] = "awaitSession"
  /\ conn[s] \in {"open", "closed"}
  /\ startPc' = [startPc EXCEPT ![s] = "done"]
  /\ sessionRef' = s
  /\ capture' = [capture EXCEPT
       !.sent = @ \o Chunks(capture.pending[s], s, sessionState),
       !.pending[s] = <<>>]
  /\ UNCHANGED hist
  /\ UNCHANGED <<sessionState, errorMessage, outputAudioCtxRef, micStreamRef,
                 conn, micActive, ctxTime, msgCount, sessCount, pcm>>
  /\ UNCHANGED transVars
  /\ UNCHANGED playVars

\* sessionPromise rejects (handshake refused): the catch block.
ConnectRejected(s) ==
  /\ startPc[s] = "awaitSession"
  /\ conn[s] = "connecting"
  /\ conn' = [conn EXCEPT ![s] = "failed"]
  /\ startPc' = [startPc EXCEPT ![s] = "failed"]
  /\ errorMessage' = "setup"
  /\ sessionState' = "ERROR"
  /\ UNCHANGED hist
  /\ UNCHANGED <<sessionRef, outputAudioCtxRef, micStreamRef, micActive,
                 ctxTime, msgCount, sessCount>>
  /\ UNCHANGED transVars
  /\ UNCHANGED <<capture, pcm>>
  /\ UNCHANGED playVars

\* callbacks.onerror: the transport failed while connecting ("refused": the
\* promise stays pending for good) or after the open event ("errored").
OnError(s) ==
  /\ conn[s] \in {"connecting", "open"}
  /\ conn' = [conn EXCEPT ![s] = IF @ = "connecting" THEN "refused"
                                 ELSE "errored"]
  /\ errorMessage' = "transport"
  /\ sessionState' = "ERROR"
  /\ UNCHANGED hist
  /\ UNCHANGED <<sessionRef, outputAudioCtxRef, micStreamRef, startPc,
                 micActive, ctxTime, msgCount, sessCount>>
  /\ UNCHANGED transVars
  /\ UNCHANGED <<capture, pcm>>
  /\ UNCHANGED playVars

\* callbacks.onclose: the service closed the channel, close() completed, or
\* the failed transport closed ("dead" when it had never opened).
OnClose(s) ==
  /\ conn[s] \in {"open", "closing", "errored", "refused"}
  /\ conn' = [conn EXCEPT ![s] = IF @ = "refused" THEN "dead" ELSE "closed"]
  /\ sessionState' = "DISCONNECTED"
  /\ UNCHANGED hist
  /\ UNCHANGED <<errorMessage, sessionRef, outputAudioCtxRef, micStreamRef,
                 startPc, micActive, ctxTime, msgCount, sessCount>>
  /\ UNCHANGED transVars
  /\ UNCHANGED <<capture, pcm>>
  /\ UNCHANGED playVars

\* scriptProcessor.onaudioprocess: a frame is captured and encoded, and its
\* chunk is sent from a `then` callback of sessionPromise: at once when the
\* promise has resolved, when it resolves otherwise.  Nothing is awaited.
OnAudioProcess(s) ==
  /\ capture.on[s]
  /\ capture.count < MaxFrames
  /\ LET f == capture.count + 1 IN
       capture' =
         IF startPc[s] = "done"
           THEN [capture EXCEPT !.count = f,
                   !.sent = Append(@, [frame |-> f, sess |-> s,
                                       state |-> sessionState,
                                       queued |-> FALSE])]
           ELSE [capture EXCEPT !.count = f,
                   !.pending[s] = Append(@, f)]
  /\ UNCHANGED hist
  /\ UNCHANGED <<sessionState, errorMessage, sessionRef, outputAudioCtxRef,
                 micStreamRef, startPc, conn, micActive, ctxTime, msgCount,
                 sessCount, pcm>>
  /\ UNCHANGED transVars
  /\ UNCHANGED playVars

\* The connection after sessionRef.current.close().
ClosedByStop(c) == IF c \in {"open", "connecting"} THEN "closing" ELSE c

\* handleStopSession.
HandleStopSession ==
  /\ CanStop
  /\ conn' = IF sessionRef # 0
               THEN [conn EXCEPT ![sessionRef] = ClosedByStop(@)]
               ELSE conn
  /\ sessionRef' = 0
  /\ micActive' = IF micStreamRef # 0
                    THEN [micActive EXCEPT ![micStreamRef] = FALSE]
                    ELSE micActive
  /\ stopAllAudio(node, audioSourcesRef, 0)
  /\ sessionState' = "DISCONNECTED"
  /\ hist' = [ResetHist(hist) EXCEPT
       !.stopped = (sessionState = "CONNECTED" /\ sessionRef # 0),
       !.halted = TRUE]
  /\ UNCHANGED <<errorMessage, outputAudioCtxRef, micStreamRef, startPc,
                 ctxTime, msgCount, sessCount, decoding>>
  /\ UNCHANGED transVars
  /\ UNCHANGED <<capture, pcm>>

(* ------------------------ transcript aggregation ----------------------- *)
\* Texts are sequences of characters.  A message carries at most one fragment
\* per role; <<>> stands for "no fragment" and for the empty text alike (both
\* leave the accumulator as it is).
Fragments == {<<>>} \cup {<<c>> : c \in Chars}

\* `ref.current += text`
Appended(acc, text) == acc \o text

\* A slip in the flush: the emptiness checks are missing.
FlushesUnchecked(in, out) == <<"user", "professor">>

\* The roles for which the turnComplete block calls setMessages, in call order.
Flushes(in, out) ==
  (IF in # <<>> THEN <<"user">> ELSE <<>>) \o
  (IF out # <<>> THEN <<"professor">> ELSE <<>>)

\* The history's entries for a turn that completes with accumulators in, out.
Meant(in, out) ==
  LET both == in # <<>> /\ out # <<>> IN
    (IF in = <<>> THEN <<>>
     ELSE <<[role |-> "user", text |-> in, pair |-> both]>>) \o
    (IF out = <<>> THEN <<>>
     ELSE <<[role |-> "professor", text |-> out, pair |-> both]>>)

\* The entry an updater `prev => [...prev, {role, text: ref.current}]` appends
\* when it runs while the accumulators hold in and out.
Entry(role, in, out) ==
  [role |-> role, text |-> IF role = "user" THEN in ELSE out]

\* The entries the updaters of `roles` append when run with in and out.
Entries(roles, in, out) ==
  [k \in 1..Len(roles) |-> Entry(roles[k], in, out)]

\* An updater that drops the log it is given.
LoggedAlone(prev, entries) == entries

\* `prev => [...prev, entry]`, for the entries of consecutive updaters.
Logged(prev, entries) == prev \o entries

\* How many of a handler's setMessages updaters React runs inside the call
\* itself, for a handler whose updaters are `calls` and that finds `queue`
\* pending.  React's version and root decide, and neither is part of the
\* component: a legacy root renders synchronously inside every setMessages
\* called from a connection callback (all of them run at once); a concurrent
\* root queues the updater for the next render, except that the first update
\* of a component with nothing pending may be computed eagerly (none or one).
\* With updaters already pending, every new one is queued behind them.
EagerCounts(calls, queue) ==
  IF queue = <<>> THEN 0..Len(calls) ELSE {0}

\* React renders: the queued updaters run in order, each reading the
\* accumulators as they are now.
Render ==
  /\ updateQueue # <<>>
  /\ messages' = Logged(messages,
                   Entries(updateQueue, currentInputTransRef, currentOutputTransRef))
  /\ updateQueue' = <<>>
  /\ UNCHANGED hist
  /\ UNCHANGED <<currentInputTransRef, currentOutputTransRef>>
  /\ UNCHANGED lifeVars
  /\ UNCHANGED playVars
  /\ UNCHANGED <<ctxTime, msgCount>>

(* -------------------------- playback scheduling ------------------------ *)
\* A slip in the clamp: the cursor is left where it was.
ClampedCursorKept(cursor, now) == cursor

\* A slip in the clamp: the device time is taken whatever the cursor is.
ClampedCursorNow(cursor, now) == now

\* `nextStartTimeRef.current = Math.max(nextStartTimeRef.current, ctx.currentTime)`
ClampedCursor(cursor, now) == Max(cursor, now)

\* A slip in the advance: the cursor is left where it was.
AdvancedCursorStale(cursor, dur) == cursor

\* A slip in the advance: `=` for `+=`.
AdvancedCursorAssign(cursor, dur) == dur

\* `nextStartTimeRef.current += audioBuffer.duration`
AdvancedCursor(cursor, dur) == cursor + dur

\* The inbound messages: optional fragments, turnComplete, an optional audio
\* payload (0 = none, else the duration of the decoded buffer), interrupted.
Messages ==
  [inT : Fragments, outT : Fragments, turnComplete : BOOLEAN,
   audio : 0..MaxDur, interrupted : BOOLEAN]
\* Messages of the audio stream: audio, the interrupted flag, or both.
AudioMessages ==
  {m \in Messages : /\ m.inT = <<>> /\ m.outT = <<>> /\ ~m.turnComplete
                    /\ (m.audio # 0 \/ m.interrupted)}
\* Messages of the transcript stream: fragments, turnComplete, or both.
TranscriptMessages ==
  {m \in Messages : /\ m.audio = 0 /\ ~m.interrupted
                    /\ (m.inT # <<>> \/ m.outT # <<>> \/ m.turnComplete)}

\* callbacks.onmessage up to `await decodeAudioData`, or to its end when the
\* message carries no audio.
OnMessage(s, m) ==
  /\ conn[s] = "open"
  /\ msgCount < MaxMsgs
  /\ msgCount' = msgCount + 1
  /\ LET id == msgCount + 1
         in1 == Appended(currentInputTransRef, m.inT)
         out1 == Appended(currentOutputTransRef, m.outT)
         calls == IF m.turnComplete THEN Flushes(in1, out1) ELSE <<>>
         ctx == outputAudioCtxRef
         now == ctxTime[ctx]
         h1 == [hist EXCEPT !.expect =
                  IF m.turnComplete THEN @ \o Meant(in1, out1) ELSE @]
     IN
       /\ \E e \in EagerCounts(calls, updateQueue) :
            /\ messages' = Logged(messages, Entries(SubSeq(calls, 1, e), in1, out1))
            /\ updateQueue' = updateQueue \o SubSeq(calls, e + 1, Len(calls))
       /\ currentInputTransRef' = IF m.turnComplete THEN <<>> ELSE in1
       /\ currentOutputTransRef' = IF m.turnComplete THEN <<>> ELSE out1
       /\ IF m.audio # 0 /\ ctx # 0
            THEN /\ isProfessorSpeaking' = TRUE
                 /\ nextStartTimeRef' = ClampedCursor(nextStartTimeRef, now)
                 /\ decoding' = [decoding EXCEPT ![id] =
                      [on |-> TRUE, dur |-> m.audio, ctx |-> ctx,
                       interrupted |-> m.interrupted,
                       arrEpoch |-> hist.resets, arrNow |-> now,
                       behind |-> nextStartTimeRef < now]]
                 /\ hist' = [h1 EXCEPT
                      !.raised = @ \/ nextStartTimeRef' > nextStartTimeRef]
                 /\ UNCHANGED <<node, audioSourcesRef>>
            ELSE IF m.interrupted
              THEN /\ stopAllAudio(node, audioSourcesRef, id)
                   /\ hist' = ResetHist(h1)
                   /\ UNCHANGED decoding
              ELSE /\ hist' = h1
                   /\ UNCHANGED playVars
  /\ UNCHANGED lifeVars
  /\ UNCHANGED <<ctxTime>>

\* The device time at which a buffer of duration dur handed to start(when) at
\* device time now runs out: a start time in the past plays at once.
EndTime(when, now, dur) == Max(when, now) + dur

\* decodeAudioData (utils/audio) is awaited: the handler is suspended, other
\* callbacks run meanwhile, and the decodes of several messages complete in
\* any order.
CanResume(i) == decoding[i].on

\* callbacks.onmessage from the resumption of `await decodeAudioData` to its
\* end: the source node is created, started at the cursor and added to the
\* in-flight set, then the interrupted flag of the message is acted on.
DecodeDone(i) ==
  /\ CanResume(i)
  /\ LET d == decoding[i]
         when == nextStartTimeRef
         now == ctxTime[d.ctx]
         nd1 == [node EXCEPT ![i] =
                   [st |-> "playing", start |-> when, dur |-> d.dur,
                    ctx |-> d.ctx, endAt |-> EndTime(when, now, d.dur),
                    epoch |-> hist.resets, cancelledBy |-> -1]]
         srcs1 == audioSourcesRef \cup {i}
     IN
       /\ decoding' = [decoding EXCEPT ![i] = NoDecode]
       /\ IF d.interrupted
            THEN /\ stopAllAudio(nd1, srcs1, i)
                 /\ hist' = ResetHist(hist)
            ELSE /\ node' = nd1
                 /\ audioSourcesRef' = srcs1
                 /\ nextStartTimeRef' = AdvancedCursor(when, d.dur)
                 /\ hist' = [hist EXCEPT !.raised = FALSE, !.last = i]
                 /\ UNCHANGED isProfessorSpeaking
  /\ UNCHANGED lifeVars
  /\ UNCHANGED transVars
  /\ UNCHANGED <<ctxTime, msgCount>>

\* An onended that never signals idle.
SpeakingKept(srcs, flag) == flag

\* `if (audioSourcesRef.current.size === 0) setIsProfessorSpeaking(false)`
SpeakingAfterEnd(srcs, flag) == IF srcs = {} THEN FALSE ELSE flag

\* source.onended: the buffer ran out, or the node was stopped.
OnEnded(i) ==
  /\ \/ node[i].st = "stopped"
     \/ node[i].st = "playing" /\ ctxTime[node[i].ctx] >= node[i].endAt
  /\ node' = [node EXCEPT ![i].st = "ended"]
  /\ audioSourcesRef' = audioSourcesRef \ {i}
  /\ isProfessorSpeaking' = SpeakingAfterEnd(audioSourcesRef', isProfessorSpeaking)
  /\ UNCHANGED hist
  /\ UNCHANGED <<nextStartTimeRef, decoding>>
  /\ UNCHANGED lifeVars
  /\ UNCHANGED transVars
  /\ UNCHANGED <<ctxTime, msgCount>>

\* The output device's clock advances: currentTime of every context created.
Tick ==
  /\ sessCount > 0
  /\ \A s \in 1..sessCount : ctxTime[s] < MaxTime
  /\ ctxTime' = [s \in SessIds |-> IF s <= sessCount THEN ctxTime[s] + 1
                                   ELSE ctxTime[s]]
  /\ UNCHANGED hist
  /\ UNCHANGED <<msgCount>>
  /\ UNCHANGED lifeVars
  /\ UNCHANGED transVars
  /\ UNCHANGED playVars

\* The clock goes on past MaxTime for as long as a started segment has not
\* run out.
PlayOut ==
  /\ sessCount > 0
  /\ \E s \in 1..sessCount : ctxTime[s] >= MaxTime
  /\ \E i \in MsgIds :
       node[i].st = "playing" /\ ctxTime[node[i].ctx] < node[i].endAt
  /\ ctxTime' = [s \in SessIds |-> IF s <= sessCount THEN ctxTime[s] + 1
                                   ELSE ctxTime[s]]
  /\ UNCHANGED hist
  /\ UNCHANGED <<msgCount>>
  /\ UNCHANGED lifeVars
  /\ UNCHANGED transVars
  /\ UNCHANGED playVars

(* ------------------------------ PCM codec ------------------------------ *)
\* encode scales a sample by PcmScale, decode divides by PcmRange.
PcmScale == 32767
PcmRange == 32768
\* A sample is the rational n / SampleDen: SampleSteps values per step of the
\* 16-bit scale, so that s * PcmScale is n / SampleSteps.  Samples reach one
\* step beyond [-1, 1] on either side.
SampleDen == PcmScale * SampleSteps
Samples == (-(SampleDen + SampleSteps))..(SampleDen + SampleSteps)
InRange(n) == -SampleDen <= n /\ n <= SampleDen

\* clamp(s, -1, 1)
Clamped(n) ==
  IF n > SampleDen THEN SampleDen ELSE IF n < -SampleDen THEN -SampleDen ELSE n

\* The fraction n / k cut towards zero.
Truncated(n, k) == IF n >= 0 THEN n \div k ELSE -((-n) \div k)

\* round(n / k): the nearest integer, a tie going up.
Rounded(n, k) == (2 * n + k) \div (2 * k)

\* round(clamp(s, -1, 1) * 32767)
ToInt16(n) == Rounded(Clamped(n), SampleSteps)

\* A 16-bit signed integer as two bytes, low byte first, and back.
LittleEndian(v) == LET u == v % 65536 IN <<u % 256, u \div 256>>
FromLittleEndian(b) ==
  LET u == b[1] + 256 * b[2] IN IF u >= PcmRange THEN u - 65536 ELSE u

\* encode: one sample to its chunk.
Encode ==
  /\ pcm.pc = "sampled"
  /\ pcm' = [pcm EXCEPT !.pc = "encoded", !.bytes = LittleEndian(ToInt16(pcm.n))]
  /\ UNCHANGED <<sessionState, errorMessage, sessionRef, outputAudioCtxRef,
                 micStreamRef, startPc, conn, micActive, sessCount, capture>>
  /\ UNCHANGED <<ctxTime, msgCount, hist>>
  /\ UNCHANGED transVars
  /\ UNCHANGED playVars

\* decode: the chunk to the integer that is then divided by PcmRange.
Decode ==
  /\ pcm.pc = "encoded"
  /\ pcm' = [pcm EXCEPT !.pc = "decoded", !.out = FromLittleEndian(pcm.bytes)]
  /\ UNCHANGED <<sessionState, errorMessage, sessionRef, outputAudioCtxRef,
                 micStreamRef, startPc, conn, micActive, sessCount, capture>>
  /\ UNCHANGED <<ctxTime, msgCount, hist>>
  /\ UNCHANGED transVars
  /\ UNCHANGED playVars

\* |out / PcmRange - n / SampleDen| in units of 1 / (PcmRange * SampleDen),
\* that is |out * SampleDen - PcmRange * n|, written so that no product
\* leaves 32 bits.
RoundTripError(n, out) ==
  LET d == PcmScale * (out * SampleSteps - n) - (PcmRange - PcmScale) * n
  IN IF d >= 0 THEN d ELSE -d

(* ---------------------------- specifications --------------------------- *)
\* One session from start to stop, with the messages of the audio stream.
Next ==
  \/ sessCount = 0 /\ HandleStartSession
  \/ \E s \in SessIds : MicGranted(s)
  \/ \E s \in SessIds : OnOpen(s)
  \/ \E s \in SessIds : ConnectResolved(s)
  \/ HandleStopSession
  \/ \E s \in SessIds, m \in AudioMessages :
       msgCount < MaxAudioMsgs /\ OnMessage(s, m)
  \/ \E i \in MsgIds : DecodeDone(i)
  \/ \E i \in MsgIds : OnEnded(i)
  \/ Tick

Spec == Init /\ [][Next]_vars

\* The same session with a clock that lets every started segment run out,
\* and with the event loop running every callback that is ready: a decode
\* that is pending completes, a node that ran out or was stopped gets its
\* ended event, and the clock advances.
NextLive ==
  \/ Next
  \/ PlayOut

SpecLive ==
  /\ Init
  /\ [][NextLive]_vars
  /\ \A i \in MsgIds : WF_vars(DecodeDone(i))
  /\ \A i \in MsgIds : WF_vars(OnEnded(i))
  /\ WF_vars(Tick)
  /\ WF_vars(PlayOut)

\* One session from start to stop, with the messages of the transcript stream.
NextTranscript ==
  \/ sessCount = 0 /\ HandleStartSession
  \/ \E s \in SessIds : MicGranted(s)
  \/ \E s \in SessIds : OnOpen(s)
  \/ \E s \in SessIds : ConnectResolved(s)
  \/ HandleStopSession
  \/ \E s \in SessIds, m \in TranscriptMessages : OnMessage(s, m)
  \/ Render

SpecTranscript == Init /\ [][NextTranscript]_vars

\* Start requests, stops and every outcome of a start, with the capture side.
NextLifecycle ==
  \/ HandleStartSession
  \/ \E s \in SessIds : MicGranted(s)
  \/ \E s \in SessIds : MicDenied(s)
  \/ \E s \in SessIds : OnOpen(s)
  \/ \E s \in SessIds : ConnectResolved(s)
  \/ \E s \in SessIds : ConnectRejected(s)
  \/ \E s \in SessIds : OnError(s)
  \/ \E s \in SessIds : OnClose(s)
  \/ \E s \in SessIds : OnAudioProcess(s)
  \/ HandleStopSession

SpecLifecycle == Init /\ [][NextLifecycle]_vars

\* Messages that concern the log, one of each kind: a fragment of the user, a
\* fragment of the professor that completes the turn, a bare turnComplete,
\* and the bare interruption.
LogMessages ==
  {m \in Messages :
     /\ m.audio = 0
     /\ \/ m.inT = <<"a">> /\ m.outT = <<>> /\ ~m.turnComplete /\ ~m.interrupted
        \/ m.inT = <<>> /\ m.outT = <<"b">> /\ m.turnComplete /\ ~m.interrupted
        \/ m.inT = <<>> /\ m.outT = <<>> /\ m.turnComplete /\ ~m.interrupted
        \/ m.inT = <<>> /\ m.outT = <<>> /\ ~m.turnComplete /\ m.interrupted}

\* Start requests, stops and every outcome of a start, with the messages that
\* concern the log.
NextSession ==
  \/ HandleStartSession
  \/ \E s \in SessIds : MicGranted(s)
  \/ \E s \in SessIds : MicDenied(s)
  \/ \E s \in SessIds : OnOpen(s)
  \/ \E s \in SessIds : ConnectResolved(s)
  \/ \E s \in SessIds : ConnectRejected(s)
  \/ \E s \in SessIds : OnError(s)
  \/ \E s \in SessIds : OnClose(s)
  \/ HandleStopSession
  \/ \E s \in SessIds, m \in LogMessages : OnMessage(s, m)
  \/ Render

SpecSession == Init /\ [][NextSession]_vars

\* The codec applied to one sample.
InitCodec ==
  /\ InitApp
  /\ pcm \in {[pc |-> "sampled", n |-> n, bytes |-> <<>>, out |-> 0] :
               n \in Samples}

NextCodec ==
  \/ Encode
  \/ Decode

SpecCodec == InitCodec /\ [][NextCodec]_vars

(* ------------------------------ properties ----------------------------- *)
Started(i) == node[i].st # "none"
\* The step calls start() on node i.
Starts(i) == node[i].st = "none" /\ node'[i].st # "none"
\* The step runs stopAllAudio.
Resets == hist'.resets > hist.resets
End(i) == node[i].start + node[i].dur

\* C1: two segments started with no reset (interruption or stop) between them
\* never have overlapping [start, start + duration) intervals, whatever the
\* interleaving of messages, decode completions and clock ticks.
C1_NoOverlap ==
  \A i, j \in MsgIds :
    (i # j /\ Started(i) /\ Started(j) /\ node[i].epoch = node[j].epoch)
      => (End(i) <= node[j].start \/ End(j) <= node[i].start)

\* Two segments of one epoch, the later message's segment scheduled first,
\* and the clock has advanced.
C1_Witness ==
  \E i, j \in MsgIds :
    /\ i < j /\ Started(i) /\ Started(j) /\ node[i].epoch = node[j].epoch
    /\ node[j].start < node[i].start
    /\ ctxTime[node[i].ctx] > 0

\* C2: a segment started right after another one of the same epoch, with no
\* idle gap in between (the clamp did not raise the cursor), starts exactly
\* where that one ends; every start() takes the cursor as its time, and the
\* cursor after the enqueue is start + duration.
C2_GaplessStep ==
  \A i \in MsgIds :
    Starts(i) =>
      /\ node'[i].start = nextStartTimeRef
      /\ (hist.last # 0 /\ ~hist.raised) => node'[i].start = End(hist.last)
      /\ ~decoding[i].interrupted =>
           nextStartTimeRef' = node'[i].start + node'[i].dur
C2_Gapless == [][C2_GaplessStep]_vars

\* Two segments of different durations back to back, the cursor at the end of
\* the second.
C2_Witness ==
  \E i, j \in MsgIds :
    /\ i # j /\ Started(i) /\ Started(j) /\ node[i].epoch = node[j].epoch
    /\ hist.last = j
    /\ node[i].dur # node[j].dur
    /\ node[j].start = End(i)
    /\ nextStartTimeRef = End(j)

\* C3: segments are scheduled in the arrival order of their messages: of two
\* started segments, the one whose message arrived first does not start later
\* (stated for runs without any reset).
C3_ArrivalOrder ==
  hist.resets = 0 =>
    \A i, j \in MsgIds :
      (i < j /\ Started(i) /\ Started(j)) => node[i].start <= node[j].start

\* C4: the reset of an interrupting message never cancels the audio that the
\* same message carries.
C4_OwnAudioSurvives == \A i \in MsgIds : node[i].cancelledBy # i

\* C5: a reset leaves the in-flight set empty and the speaking flag false, and
\* the first segment started after a reset starts at the device's current
\* time (read when its message arrived, or when it is started).
C5_ResetStep ==
  /\ Resets => (audioSourcesRef' = {} /\ ~isProfessorSpeaking')
  /\ \A i \in MsgIds :
       (Starts(i) /\ hist.resets > 0 /\ hist.last = 0) =>
         node'[i].start \in {ctxTime[decoding[i].ctx], decoding[i].arrNow}
C5_ResetClears == [][C5_ResetStep]_vars

\* C6: messages are handled one at a time: no handler begins while the
\* handler of an earlier message is still suspended.
C6_OneAtATimeStep ==
  msgCount' > msgCount => \A i \in MsgIds : ~decoding[i].on
C6_OneAtATime == [][C6_OneAtATimeStep]_vars

\* C7: a segment whose message found the cursor behind the device time starts
\* at the device time of the moment it is started (stated for a segment that
\* is alone: no reset since its message arrived, nothing in flight, no other
\* decode pending).
C7_CatchUpStep ==
  \A i \in MsgIds :
    ( /\ Starts(i) /\ decoding[i].behind
      /\ decoding[i].arrEpoch = hist.resets
      /\ audioSourcesRef = {}
      /\ \A j \in MsgIds \ {i} : ~decoding[j].on )
    => node'[i].start = ctxTime[decoding[i].ctx]
C7_CatchUp == [][C7_CatchUpStep]_vars

\* C10: after stop session ran in CONNECTED, and until the next start request,
\* the state is DISCONNECTED, no microphone track is live and the in-flight
\* set is empty.
C10_StopReleases ==
  hist.stopped =>
    /\ sessionState = "DISCONNECTED"
    /\ \A s \in SessIds : ~micActive[s]
    /\ audioSourcesRef = {}

\* The roles of the entries of a log.
Roles(entries) == [k \in 1..Len(entries) |-> entries[k].role]

\* C8: a turn that completes with text accumulated for both roles adds two
\* entries to the log, the user's and then the professor's, each with the
\* whole text of the role's fragments of the turn, and leaves both
\* accumulators empty.
C8_PairLogged ==
  \A k \in 1..Len(messages) :
    hist.expect[k].pair =>
      /\ messages[k].role = hist.expect[k].role
      /\ messages[k].text = hist.expect[k].text
C8_TurnStep ==
  Len(hist'.expect) > Len(hist.expect) =>
    (currentInputTransRef' = <<>> /\ currentOutputTransRef' = <<>>)
C8_TurnFlush == []C8_PairLogged /\ [][C8_TurnStep]_vars

\* C9: on turn-complete exactly the roles with accumulated text produce a
\* message, in the order user, professor: the log with the updates still
\* queued behind it has one entry per such role and turn, and no other.
C9_EmptyRoleSilent ==
  Roles(messages) \o updateQueue = Roles(hist.expect)

\* A first turn in which only the professor had text, rendered.
C9_Witness ==
  /\ updateQueue = <<>>
  /\ Len(messages) = 1
  /\ messages[1].role = "professor"
  /\ Len(hist.expect) = 1
  /\ ~hist.expect[1].pair


(* --------------------------- session lifecycle ------------------------- *)
\* The transitions of section 4.6, as pairs <<from, to>>.
Listed ==
  {<<"DISCONNECTED", "CONNECTING">>, <<"CONNECTING", "CONNECTED">>,
   <<"CONNECTING", "ERROR">>, <<"CONNECTED", "DISCONNECTED">>,
   <<"CONNECTED", "ERROR">>, <<"ERROR", "ERROR">>, <<"ERROR", "CONNECTING">>}

\* The step is a run of handleStopSession.
StopStep ==
  /\ CanStop
  /\ sessionState' = "DISCONNECTED"
  /\ hist'.resets = hist.resets + 1

\* C11: every change of SessionState is one of the listed transitions, so
\* CONNECTED is entered only from CONNECTING and DISCONNECTED only from
\* CONNECTED.  Read in the code's favour: a stop pressed while CONNECTING,
\* which the stop button allows, may also lead to DISCONNECTED.
C11_ListedStep ==
  sessionState' # sessionState =>
    \/ <<sessionState, sessionState'>> \in Listed
    \/ sessionState = "CONNECTING" /\ StopStep
C11_Transitions == [][C11_ListedStep]_vars

\* The step is the catch block of start request s after getUserMedia rejected.
MicFails(s) == startPc[s] = "awaitMic" /\ startPc'[s] = "failed"

\* C12: a start request whose microphone acquisition fails moves the session
\* from CONNECTING to ERROR; on that path no connection is opened and no
\* capture pipeline is created.
C12_MicFailureStep ==
  \A s \in SessIds :
    MicFails(s) =>
      /\ sessionState = "CONNECTING"
      /\ sessionState' = "ERROR"
      /\ errorMessage' # "null"
      /\ conn'[s] = "none"
      /\ ~capture'.on[s]
C12_MicFailure == [][C12_MicFailureStep]_vars

\* The step is callbacks.onerror of session s.
TransportFails(s) ==
  /\ conn[s] \in {"connecting", "open"}
  /\ conn'[s] \in {"refused", "errored"}

\* C13: a transport error during CONNECTING or CONNECTED moves the session to
\* ERROR with a message, releases the microphone and resets playback.
C13_TransportErrorStep ==
  \A s \in SessIds :
    TransportFails(s) =>
      /\ sessionState' = "ERROR"
      /\ errorMessage' = "transport"
      /\ ~micActive'[s]
      /\ audioSourcesRef' = {}
      /\ ~isProfessorSpeaking'
C13_TransportError == [][C13_TransportErrorStep]_vars

\* C14: whenever the state is DISCONNECTED or ERROR, no microphone stream
\* acquired by a start request is still live.
C14_MicReleased ==
  sessionState \in {"DISCONNECTED", "ERROR"} =>
    \A s \in SessIds : ~micActive[s]

(* ------------------------------- capture ------------------------------- *)
\* C15: a captured frame is handed to the outbound channel only while the
\* session is CONNECTED.  Read in the code's favour: only the frames captured
\* after the connection promise resolved are looked at.
C15_SentWhileConnected ==
  \A k \in 1..Len(capture.sent) :
    ~capture.sent[k].queued => capture.sent[k].state = "CONNECTED"

\* The frames of session s in the order they were, or will be, handed to the
\* outbound channel.
SendOrder(s) ==
  LET own == SelectSeq(capture.sent, LAMBDA c : c.sess = s)
  IN [k \in 1..Len(own) |-> own[k].frame] \o capture.pending[s]

\* C16: the chunks of a session are sent in the order their frames were
\* captured, the frames captured before the connection promise resolved
\* included; no frame waits behind an earlier send.
C16_CaptureOrder ==
  \A s \in SessIds :
    /\ \A j, k \in 1..Len(SendOrder(s)) :
         j < k => SendOrder(s)[j] < SendOrder(s)[k]
    /\ startPc[s] = "done" => capture.pending[s] = <<>>
\* Two frames waited for the promise and were sent when it resolved.
C16_Witness ==
  \E j, k \in 1..Len(capture.sent) :
    /\ j < k
    /\ capture.sent[j].queued /\ capture.sent[k].queued
    /\ capture.sent[j].sess = capture.sent[k].sess

(* -------------------------------- codec -------------------------------- *)
\* C17, as stated: for every sample in [-1, 1], the decoded value is within
\* 1/32768 of the sample.
C17_RoundTrip ==
  (pcm.pc = "decoded" /\ InRange(pcm.n)) =>
    RoundTripError(pcm.n, pcm.out) <= SampleDen

\* C17, amended: for every sample in [-1, 1], the decoded value is within
\* 1.5/32768 of the sample (half a step from rounding, up to one step from
\* scaling by 32767 and dividing by 32768).
C17_RoundTripWithin3Halves ==
  (pcm.pc = "decoded" /\ InRange(pcm.n)) =>
    2 * RoundTripError(pcm.n, pcm.out) <= 3 * SampleDen
\* A sample in [-1, 1] was encoded and decoded, and came back more than
\* 1/32768 away.
C17_Witness ==
  /\ pcm.pc = "decoded"
  /\ InRange(pcm.n)
  /\ RoundTripError(pcm.n, pcm.out) > SampleDen

(* ------------------------------ message log ---------------------------- *)
IsPrefix(p, q) == Len(p) <= Len(q) /\ SubSeq(q, 1, Len(p)) = p

\* C18: the message log is append-only: every step leaves it unchanged or
\* extends it at the end.
C18_AppendOnlyStep == IsPrefix(messages, messages')
C18_AppendOnly == [][C18_AppendOnlyStep]_vars
\* After a stop and a second start request, entries were logged one behind
\* the other.
C18_Witness ==
  /\ sessCount = 2
  /\ Len(messages) >= 2
  /\ updateQueue = <<>>
  /\ hist.resets > 0

(* ---------------------------- agent speaking --------------------------- *)
\* C19: whenever the in-flight set is non-empty the agent-speaking flag is
\* true, and when the set is empty the flag is false (unless a chunk is being
\* decoded: the flag is raised when the chunk arrives).
C19_SetNeedsFlag == audioSourcesRef # {} => isProfessorSpeaking
C19_IdleClearsFlag ==
  (audioSourcesRef = {} /\ \A i \in MsgIds : ~decoding[i].on)
    => ~isProfessorSpeaking
C19_FlagTracksSet == C19_SetNeedsFlag /\ C19_IdleClearsFlag

(* -------------------------------- reset -------------------------------- *)
\* C20: reset never fails.  Whatever subset of the stop() calls throws, every
\* other segment of the in-flight set is stopped (a segment that was reset
\* and is still unstopped is one whose buffer had run out), the set is
\* cleared, the cursor is 0, the agent-speaking flag is false, and no error
\* is surfaced.
C20_RestStopped ==
  \A i \in MsgIds :
    (node[i].cancelledBy # -1 /\ node[i].st = "playing")
      => ctxTime[node[i].ctx] >= node[i].endAt
C20_ResetStep ==
  Resets =>
    /\ audioSourcesRef' = {}
    /\ nextStartTimeRef' = 0
    /\ ~isProfessorSpeaking'
    /\ errorMessage' = errorMessage
C20_ResetNeverFails == []C20_RestStopped /\ [][C20_ResetStep]_vars
\* A reset in which the stop() of one segment threw and another segment was
\* stopped all the same.
C20_Witness ==
  \E i, j \in MsgIds :
    /\ i # j
    /\ node[i].cancelledBy # -1
    /\ node[i].cancelledBy = node[j].cancelledBy
    /\ node[i].st = "playing"
    /\ node[j].st = "stopped"
    /\ audioSourcesRef = {}
    /\ nextStartTimeRef = 0
    /\ ~isProfessorSpeaking

(* ------------------------------- cursor -------------------------------- *)
\* The step is the arrival of audio message i: its handler runs up to the
\* await of the decode.
Arrives(i) == ~decoding[i].on /\ decoding'[i].on

\* C21, as stated: in every state the cursor is at or after the current time
\* of the output device.
C21_CursorNotBehind ==
  outputAudioCtxRef # 0 => nextStartTimeRef >= ctxTime[outputAudioCtxRef]

\* C21, amended: the cursor is at or after the current time of the output
\* device when the handler of an audio message has clamped it; between
\* messages and after a reset it may be behind.
C21_ClampedStep ==
  \A i \in MsgIds :
    Arrives(i) => nextStartTimeRef' >= ctxTime[outputAudioCtxRef]
C21_ClampedOnArrival == [][C21_ClampedStep]_vars
\* An audio message found the cursor behind the device time, and the clamp
\* raised it.
C21_Witness ==
  \E i \in MsgIds :
    /\ decoding[i].on
    /\ decoding[i].behind
    /\ nextStartTimeRef = decoding[i].arrNow

\* C22: the cursor never decreases in a step that is not a reset: the clamp
\* and the advance of every enqueue leave it equal or larger.
C22_MonotoneStep == ~Resets => nextStartTimeRef' >= nextStartTimeRef
C22_Monotone == [][C22_MonotoneStep]_vars
\* Past a reset, a segment was enqueued behind another with the cursor ahead
\* of the device time: the clamp left the cursor, the advance raised it.
C22_Witness ==
  /\ hist.resets > 0
  /\ \E i \in MsgIds :
       /\ hist.last = i
       /\ node[i].start > 0
       /\ node[i].start > ctxTime[node[i].ctx]
       /\ nextStartTimeRef = End(i)

(* ----------------------------- cancellation ---------------------------- *)
\* C23: a segment whose audio message arrived before a reset (interruption
\* or stop) is not started once that reset has run: every segment that is
\* started has seen no reset since its message arrived.
C23_StartStep ==
  \A i \in MsgIds : Starts(i) => decoding[i].arrEpoch = hist.resets
C23_CancelledStaysSilent == [][C23_StartStep]_vars

(* ------------------------------ after stop ----------------------------- *)
\* C24: once stop session has run, and until the next start request,
\* SessionState is DISCONNECTED: no late event of the stopped session moves
\* it to CONNECTED or ERROR.
C24_StaysDisconnected == hist.halted => sessionState = "DISCONNECTED"

(* ------------------------------- liveness ------------------------------ *)
\* Playback is idle: nothing in flight, the agent-speaking flag false.
Idle == audioSourcesRef = {} /\ ~isProfessorSpeaking

\* C25: when no further audio message arrives, and every pending decode and
\* every completion event eventually occurs, playback eventually goes idle
\* and stays idle.
C25_GoesIdle == <>[]Idle
\* Two segments were in flight and both have had their ended event.
C25_Witness ==
  /\ Idle
  /\ \A i \in MsgIds : node[i].st = "ended" /\ node[i].cancelledBy = -1

(* --------------------------- transcript text --------------------------- *)
\* The texts of the entries of one role, joined in order.
RECURSIVE Joined(_, _)
Joined(entries, role) ==
  IF entries = <<>> THEN <<>>
  ELSE (IF Head(entries).role = role THEN Head(entries).text ELSE <<>>)
         \o Joined(Tail(entries), role)

\* C26: no transcript text is lost or duplicated: for each role, the texts
\* of the role's logged messages, joined in log order and followed by the
\* role's accumulator, are the fragments received so far.  The fragments
\* received are the texts the role had accumulated at each completed turn
\* followed by the accumulator, so the two accumulators cancel.  Read in the
\* code's favour: looked at only when React has run every queued updater.
C26_NoTextLost ==
  updateQueue = <<>> =>
    \A role \in {"user", "professor"} :
      Joined(messages, role) = Joined(hist.expect, role)
====
